---- MODULE Spec2Model ----
(***************************************************************************)
(* Model of the nexus-ai conversational front end.                         *)
(*                                                                         *)
(*   - the Chat page (pages/Chat.tsx): handleSend over the request/response *)
(*     call chatService.sendMessage;                                        *)
(*   - the hook useChatWebSocket: one WebSocket per conversationId, its     *)
(*     onopen/onmessage/onerror/onclose handlers and sendMessage.           *)
(*                                                                         *)
(* The orchestration back end is not part of the sources; the part of it    *)
(* that the front end talks to (session store, pipeline, synthesizer,       *)
(* event stream) is modelled from the specification and is kept in          *)
(* definitions whose names start with Srv.                                  *)
(***************************************************************************)
EXTENDS Integers, Sequences, FiniteSets, TLC

\* ------------------------------------------------------------------ bounds
\* number of accepted Chat turns explored
MaxTurns == 2
\* number of steps of the hook's environment explored: changes of conversationId,
\* calls of sendMessage and progress events emitted, taken together
MaxOps == 5
\* number of pipelines the orchestrator starts
MaxRuns == 2
\* number of changes made to the inputs of the Reports modals, and of requests the page posts
MaxEdits == 3
MaxPosts == 2
\* number of requests the Notifications page issues
MaxCalls == 3
\* number of files chosen on the Documents page, and of upload requests it posts
MaxFiles == 2
MaxUploads == 3
\* number of milliseconds the clock of the Chat page advances
MaxClock == 2

\* ------------------------------------------------------- values and strings
\* conversationId === null
NoId == 0
\* a string is a sequence of characters; SP is a whitespace character
SP == " "
Inputs == { <<>>, <<SP>>, <<"q">>, <<SP, "q", SP>> }

\* String.prototype.trim
RECURSIVE TrimLeft(_)
TrimLeft(s) == IF s = <<>> THEN <<>>
               ELSE IF Head(s) = SP THEN TrimLeft(Tail(s)) ELSE s

RECURSIVE TrimRight(_)
TrimRight(s) == IF s = <<>> THEN <<>>
                ELSE IF s[Len(s)] = SP THEN TrimRight(SubSeq(s, 1, Len(s) - 1)) ELSE s

Trim(s) == TrimRight(TrimLeft(s))

\* an optional field: absent, or present with a value
Absent == {}
Present(v) == {v}

\* the text of the message shown when a send fails
ApologyText == <<"I apologize, but I'm having trouble connecting to the server. Please ensure the backend is running and try again.">>

\* what a rejected promise may carry
ErrorDetails == { "Network Error", "Request failed with status code 500" }

\* ------------------------------------------------------------------- state
VARIABLES
  \* Chat page
  messages,        \* useState<Message[]>([])
  input,           \* useState('')
  loading,         \* useState(false)
  conversationId,  \* useState<string | null>(null)
  http,            \* the chatService.sendMessage calls that have not settled; base is messages.length at the call
  turns,           \* number of requests issued so far
  now,             \* Date.now(): the clock, in milliseconds since the page was loaded
  messageIds,      \* messageIds[i] is the id of messages[i], before toString()
  \* hook useChatWebSocket
  hookConversationId, \* the conversationId the hook was last rendered with
  status,          \* useState<WebSocketStatus>('closed')
  agentStatus,     \* useState<string | null>(null)
  socketRef,       \* socketRef.current: a socket number, or NoSocket
  onMessageRef,    \* onMessageRef.current: the frame whose onResponse it holds, or NoCallback
  sockets,         \* every WebSocket constructed: its url's conversation, readyState, frames in flight
  frames,          \* number of frames handed to WebSocket.send
  ops,             \* number of environment steps taken so far
  trace,           \* what the hook has done and seen, in order: <<socket, turn, what>>
  delivered,       \* the calls of response callbacks, in order: whose callback, with which turn's
                   \* response, at which entry of the trace, with which argument
  lastSend,        \* what the last call of sendMessage did: "sent", or "refused" when it logged
                   \* 'WebSocket is not open'; "none" before the first call
  \* session store and channels of the back end
  srvStore,        \* conversation id -> the <<turn, role>> entries appended, in order
  srvTurn,         \* socket -> the turn running on its channel
  \* the operation of the last step and its argument
  lastOp,
  \* orchestrator
  pipe,            \* the pipeline of the turn that is running: its state and its agents' steps
  pipeRuns,        \* number of pipelines started
  pipeDone,        \* the outcomes of the pipelines that have ended
  \* Reports page
  reports,             \* useState<Report[]>([])
  scheduledReports,    \* useState<ScheduledReport[]>([])
  generating,          \* useState(false)
  showGenerateModal,   \* useState(false)
  showScheduleModal,   \* useState(false)
  reportTitle,         \* useState('')
  reportType,          \* useState('weekly_analysis')
  reportFormat,        \* useState('pdf')
  timeRangeDays,       \* useState(7)
  includeAI,           \* useState(true)
  scheduleFrequency,   \* useState('weekly')
  scheduleRecipients,  \* useState('')
  reportPosts,         \* the api.post calls of the page, in order, each pending, done or failed
  reportEdits,         \* number of changes made to the inputs of the modals
  \* Notifications page
  notifications,       \* useState<Notification[]>([]): id and is_read of each
  notifLoading,        \* useState(true)
  notifFilter,         \* useState<'all' | 'unread'>('all')
  notifCalls,          \* the requests of the page that have not settled
  notifIssued,         \* number of requests issued so far
  srvAlerts,           \* the server's alerts: id -> is_read
  notifMarked,         \* the ids for which markAsRead has succeeded
  notifDeleted,        \* the ids deleteNotification was called with
  \* Documents page
  documents,           \* useState<Document[]>([]): the ids of the documents listed
  docLoading,          \* useState(true)
  uploading,           \* useState(false)
  showUploadModal,     \* useState(false)
  selectedFiles,       \* useState<File[]>([])
  docRuns,             \* the calls of handleUpload: the selectedFiles each started with, its state
  docPosts,            \* the POST /documents/upload requests, in order: run, file, phase
  docFetches,          \* the GET /documents/ requests that have not settled
  srvDocs,             \* the files the server has stored, in order
  docSelected          \* number of files chosen so far

chatVars == <<messages, input, loading, conversationId, http, turns, now, messageIds>>
hookVars == <<hookConversationId, status, agentStatus, socketRef, onMessageRef, sockets, frames, ops,
              trace, delivered, lastSend, srvTurn>>
pipeVars == <<pipe, pipeRuns, pipeDone>>
vars == <<messages, input, loading, conversationId, http, turns, now, messageIds,
          hookConversationId, status, agentStatus, socketRef, onMessageRef, sockets, frames, ops,
          trace, delivered, lastSend, srvStore, srvTurn, lastOp, pipe, pipeRuns, pipeDone,
          reports, scheduledReports, generating, showGenerateModal, showScheduleModal,
          reportTitle, reportType, reportFormat, timeRangeDays, includeAI, scheduleFrequency,
          scheduleRecipients, reportPosts, reportEdits,
          notifications, notifLoading, notifFilter, notifCalls, notifIssued, srvAlerts,
          notifMarked, notifDeleted,
          documents, docLoading, uploading, showUploadModal, selectedFiles, docRuns, docPosts,
          docFetches, srvDocs, docSelected>>
docVars == <<documents, docLoading, uploading, showUploadModal, selectedFiles, docRuns, docPosts,
             docFetches, srvDocs, docSelected>>
notifVars == <<notifications, notifLoading, notifFilter, notifCalls, notifIssued, srvAlerts,
               notifMarked, notifDeleted>>
reportVars == <<reports, scheduledReports, generating, showGenerateModal, showScheduleModal,
                reportTitle, reportType, reportFormat, timeRangeDays, includeAI, scheduleFrequency,
                scheduleRecipients, reportPosts, reportEdits>>
\* what the steps of the Chat page and of the hook leave alone
nonChatVars == <<hookVars, pipeVars, reportVars, notifVars, docVars>>
nonHookVars == <<chatVars, lastOp, pipeVars, reportVars, notifVars, docVars>>

\* the step, the text it was given, the exchange it settled, the error it caught
Op(name, text, exchange, detail) == [op |-> name, text |-> text, exchange |-> exchange, detail |-> detail]

\* ------------------------------------------------ back end (from the spec)
\* confidences are counted in hundredths: 100 stands for 1.0
Threshold == 70
ErrorPenalty == 15
\* the draft confidence Reasoning computes from the outputs that arrived, before errors are
\* counted; any output supports the answer by more than the errors of a run can take away
Drafts == { 35, 75, 130 }
SrvApologyText == <<"Sorry, I could not answer that.">>
SrvAnswerText == <<"answer">>

\* one run of the pipeline: what Routing decided and how the agents ended
SrvRuns == [ needsAction : BOOLEAN,
             research : {"done", "error"},
             analysis : {"done", "error"},
             draft : Drafts ]

Clamp(x) == IF x < 0 THEN 0 ELSE IF x > 100 THEN 100 ELSE x

SrvErrors(r) == (IF r.research = "error" THEN 1 ELSE 0)
              + (IF r.analysis = "error" THEN 1 ELSE 0)

\* all contributing agents failed
SrvAllFailed(r) == r.research = "error" /\ r.analysis = "error"

MutSrvReasoningConfidenceHeavyPenalty(r) == Clamp(r.draft - 3 * ErrorPenalty * SrvErrors(r))
SrvReasoningConfidence(r) == Clamp(r.draft - ErrorPenalty * SrvErrors(r))

\* Action is entered only on actionable intent and enough confidence
SrvActionRuns(r) == r.needsAction /\ SrvReasoningConfidence(r) >= Threshold

SrvSteps(r) ==
  << [agent |-> "research", status |-> r.research],
     [agent |-> "analyst", status |-> r.analysis],
     [agent |-> "reasoning", status |-> "done"] >>
  \o (IF ~r.needsAction THEN <<>>
      ELSE IF SrvActionRuns(r) THEN << [agent |-> "action", status |-> "done"] >>
      ELSE << [agent |-> "action", status |-> "idle"] >>)

SrvSources(r) ==
  (IF r.research = "done" THEN << [type |-> "document", name |-> "report.pdf"] >> ELSE <<>>)
  \o (IF r.analysis = "done" THEN << [type |-> "database", name |-> "sales"] >> ELSE <<>>)

\* Response Synthesizer: the FinalPayload of a run for conversation cid
SrvSynthesize(r, cid) ==
  IF SrvAllFailed(r)
  THEN [ message |-> SrvApologyText, conversation_id |-> cid, sources |-> <<>>,
         confidence |-> 0,
         agent_steps |-> << [agent |-> "research", status |-> "error"],
                            [agent |-> "analyst", status |-> "error"] >>,
         charts |-> <<>>, actions_taken |-> <<>> ]
  ELSE [ message |-> SrvAnswerText, conversation_id |-> cid,
         sources |-> SrvSources(r),
         confidence |-> SrvReasoningConfidence(r),
         agent_steps |-> SrvSteps(r),
         charts |-> (IF r.analysis = "done" THEN << "bar" >> ELSE <<>>),
         actions_taken |-> (IF SrvActionRuns(r) THEN << "report scheduled" >> ELSE <<>>) ]

\* conversation ids the store can hand out
ConvIds == 1 .. MaxTurns
SrvKnown == { c \in ConvIds : srvStore[c] # <<>> }
\* appendTurn: the user message and the assistant message of a turn, together
SrvAppendTurn(store, cid, turn) ==
  [store EXCEPT ![cid] = @ \o << <<turn, "user">>, <<turn, "assistant">> >>]

\* resolve(conversationId?): a fresh id when none is given, else the id given
SrvResolve(cid) ==
  IF cid = NoId THEN CHOOSE c \in ConvIds : c \notin SrvKnown /\ \A d \in ConvIds \ SrvKnown : c <= d
  ELSE cid

\* --------------------------------------------------------------- Chat page
\* handleSend's guard: if (!input.trim() || loading) return
MutCanSendNoBusy(text, busy) == Trim(text) # <<>>
CanSend(text, busy) == ~(Trim(text) = <<>> \/ busy)

UserMessage(text) ==
  [ role |-> "user", content |-> Trim(text), sources |-> Absent, confidence |-> Absent,
    agentSteps |-> Absent, charts |-> Absent, actionsTaken |-> Absent ]

\* the request handed to chatService.sendMessage
MutChatRequestNoId(content, cid) == [ message |-> content, conversation_id |-> NoId, include_sources |-> TRUE ]
ChatRequest(content, cid) == [ message |-> content, conversation_id |-> cid, include_sources |-> TRUE ]

MutAssistantMessageActionsFromSteps(data) ==
  [ role |-> "assistant", content |-> data.message, sources |-> Present(data.sources),
    confidence |-> Present(data.confidence), agentSteps |-> Present(data.agent_steps),
    charts |-> Present(data.charts),
    actionsTaken |-> Present([i \in 1 .. Len(data.agent_steps) |-> data.agent_steps[i].agent]) ]
MutAssistantMessageNoSteps(data) ==
  [ role |-> "assistant", content |-> data.message, sources |-> Present(data.sources),
    confidence |-> Present(data.confidence), agentSteps |-> Present(<<>>),
    charts |-> Present(data.charts), actionsTaken |-> Present(data.actions_taken) ]
MutAssistantMessagePercent(data) ==
  [ role |-> "assistant", content |-> data.message, sources |-> Present(data.sources),
    confidence |-> Present(data.confidence * 100), agentSteps |-> Present(data.agent_steps),
    charts |-> Present(data.charts), actionsTaken |-> Present(data.actions_taken) ]
AssistantMessage(data) ==
  [ role |-> "assistant", content |-> data.message, sources |-> Present(data.sources),
    confidence |-> Present(data.confidence), agentSteps |-> Present(data.agent_steps),
    charts |-> Present(data.charts), actionsTaken |-> Present(data.actions_taken) ]

MutErrorMessageRaw(detail) ==
  [ role |-> "assistant", content |-> <<detail>>, sources |-> Absent, confidence |-> Absent,
    agentSteps |-> Absent, charts |-> Absent, actionsTaken |-> Absent ]
ErrorMessage(detail) ==
  [ role |-> "assistant", content |-> ApologyText, sources |-> Absent, confidence |-> Absent,
    agentSteps |-> Absent, charts |-> Absent, actionsTaken |-> Absent ]

\* setMessages((prev) => [...prev, m])
MutAppendMessageFirst(prev, m) == <<m>> \o prev
AppendMessage(prev, m) == Append(prev, m)

\* onChange / handleSuggestionClick: setInput
SetInput(s) ==
  /\ input' = s
  /\ lastOp' = Op("setInput", s, {}, "")
  /\ UNCHANGED <<messages, loading, conversationId, http, turns, now, messageIds, srvStore,
                 nonChatVars>>

\* handleSend up to its await (the Send button, or Enter through handleKeyDown)
HandleSend ==
  /\ (CanSend(input, loading) => turns < MaxTurns)
  /\ lastOp' = Op("handleSend", input, {}, "")
  /\ IF CanSend(input, loading)
     THEN /\ messages' = AppendMessage(messages, UserMessage(input))
          /\ messageIds' = Append(messageIds, now)
          /\ input' = <<>>
          /\ loading' = TRUE
          /\ turns' = turns + 1
          /\ http' = http \cup { [ turn |-> turns + 1, phase |-> "request",
                                   req |-> ChatRequest(Trim(input), conversationId),
                                   base |-> Len(messages), data |-> <<>> ] }
          /\ UNCHANGED <<conversationId, now>>
     ELSE UNCHANGED chatVars
  /\ UNCHANGED <<srvStore, nonChatVars>>

\* the response to POST /chat/ for a request and a run of the pipeline
SrvResponse(req, r) == [ status |-> 200, data |-> SrvSynthesize(r, SrvResolve(req.conversation_id)) ]

\* chatService.sendMessage: what the awaited call returns
ChatServiceSendMessage(response) == response.data

\* the back end answers POST /chat/: resolve, run the pipeline, appendTurn
SrvHandle(x, r) ==
  /\ x.phase = "request"
  /\ LET cid == SrvResolve(x.req.conversation_id) IN
       /\ http' = (http \ {x}) \cup { [x EXCEPT !.phase = "response",
                                                  !.data = ChatServiceSendMessage(SrvResponse(x.req, r))] }
       /\ srvStore' = SrvAppendTurn(srvStore, cid, x.turn)
  /\ lastOp' = Op("srvHandle", <<>>, {}, "")
  /\ UNCHANGED <<messages, input, loading, conversationId, turns, now, messageIds, nonChatVars>>

\* handleSend after its await resolved: the try block, then finally
HandleSendResolved(x) ==
  /\ x.phase = "response"
  /\ http' = http \ {x}
  /\ conversationId' = x.data.conversation_id
  /\ messages' = AppendMessage(messages, AssistantMessage(x.data))
  /\ messageIds' = Append(messageIds, now + 1)
  /\ loading' = FALSE
  /\ lastOp' = Op("resolved", <<>>, {x}, "")
  /\ UNCHANGED <<input, turns, now, srvStore, nonChatVars>>

\* handleSend after its await rejected with detail: catch, then finally
HandleSendRejected(x, detail) ==
  /\ http' = http \ {x}
  /\ messages' = AppendMessage(messages, ErrorMessage(detail))
  /\ messageIds' = Append(messageIds, now + 1)
  /\ loading' = FALSE
  /\ lastOp' = Op("rejected", <<>>, {}, detail)
  /\ UNCHANGED <<input, conversationId, turns, now, srvStore, nonChatVars>>

\* a millisecond passes
Tick ==
  /\ now < MaxClock
  /\ now' = now + 1
  /\ UNCHANGED <<messages, input, loading, conversationId, http, turns, messageIds, srvStore,
                 lastOp, nonChatVars>>

\* ------------------------------------------------------ hook: useChatWebSocket
NoSocket == 0
NoCallback == 0
NoTurn == 0
SocketIds == 1 .. MaxOps
\* the conversations the hook is rendered with
HookConvs == { 1, 2 }

\* agentStatus strings, as the pieces a template literal joins
NullStatus == <<>>
ProcessingStatus == << "Processing..." >>

\* a frame of the event stream, after JSON.parse; turn is the frame of the client it belongs to
Event(type, agent, st, result, message, content, data, turn) ==
  [ type |-> type, agent |-> agent, status |-> st, result |-> result, message |-> message,
    content |-> content, data |-> data, turn |-> turn ]

\* the events the orchestrator emits while a turn runs
SrvProgressEvents(turn) ==
  { Event("agent_start", "research", "thinking", "", "", "", <<>>, turn),
    Event("agent_status", "analyst", "executing", "", "", "", <<>>, turn),
    Event("agent_done", "research", "", "3 passages", "", "", <<>>, turn),
    Event("status", "", "", "", "Synthesizing", "", <<>>, turn),
    Event("response_chunk", "", "", "", "", "par", <<>>, turn) }

\* agent_start / agent_status / agent_done, the terminal response, another event the
\* handler has a branch for, or an event of a type it has no branch for
EventClass(e) ==
  IF e.type \in {"agent_start", "agent_status", "agent_done"} THEN "agent"
  ELSE IF e.type = "response" THEN "response"
  ELSE IF e.type \in {"status", "response_chunk"} THEN "other"
  ELSE "unknown"

\* the text of a frame is a sequence of tokens: JSON.stringify of an object is the object
\* between braces
JsonStringify(v) == << "{", v, "}" >>

\* JSON.parse: the value a text denotes, as a one-element sequence, or <<>> when it throws
\* a SyntaxError
JsonParse(text) ==
  IF Len(text) = 3 /\ text[1] = "{" /\ text[3] = "}" THEN << text[2] >> ELSE <<>>

\* frames a peer may send that the protocol does not have: text that is no JSON, a JSON
\* text cut short, and an event of a type the handler has no branch for
PeerFrames ==
  LET ping == Event("ping", "", "", "", "", "", <<>>, NoTurn)
  IN { << "oops" >>, << "{", ping >>, JsonStringify(ping) }

\* the messages sendMessage is called with, and the runs the channel's pipeline takes
HookInputs == { <<SP>>, <<"q">> }
HookRuns == { r \in SrvRuns : r.needsAction /\ r.research = "done" /\ r.analysis = "done" /\ r.draft = 75 }

\* readyState; a socket that failed or was closed stays CLOSING until its close event fires
NewSocket(cid) == [ conv |-> cid, readyState |-> "CONNECTING", inbox |-> <<>>, outbox |-> <<>> ]
UnusedSocket == [ conv |-> NoId, readyState |-> "NONE", inbox |-> <<>>, outbox |-> <<>> ]

\* WebSocket.close(): starts the closing handshake of a socket that is not closed yet
CloseSocket(ws) ==
  IF ws.readyState \in {"CONNECTING", "OPEN"} THEN [ws EXCEPT !.readyState = "CLOSING"] ELSE ws

\* the trace entry of a socket that stops being open
Ended(s) == << <<s, NoTurn, "end">> >>

\* the effect on [conversationId]: cleanup of the previous run, then the new run
SetConversationId(cid) ==
  /\ cid # hookConversationId
  /\ ops < MaxOps
  /\ ops' = ops + 1
  /\ hookConversationId' = cid
  /\ LET old == socketRef
         closed == IF old = NoSocket THEN sockets
                   ELSE [sockets EXCEPT ![old] = CloseSocket(@)]
         free == { s \in SocketIds : sockets[s].readyState = "NONE" }
     IN /\ trace' = IF old # NoSocket /\ closed[old] # sockets[old]
                    THEN trace \o Ended(old) ELSE trace
        /\ IF cid = NoId
           THEN /\ sockets' = closed
                /\ UNCHANGED <<socketRef, status>>
           ELSE /\ LET ws == CHOOSE s \in free : \A t \in free : s <= t IN
                     /\ sockets' = [closed EXCEPT ![ws] = NewSocket(cid)]
                     /\ socketRef' = ws
                /\ status' = "connecting"
  /\ UNCHANGED <<agentStatus, onMessageRef, frames, delivered, srvTurn, srvStore, lastSend, nonHookVars>>

\* ws.onopen
WsOpen(s) ==
  /\ sockets[s].readyState = "CONNECTING"
  /\ sockets' = [sockets EXCEPT ![s].readyState = "OPEN"]
  /\ status' = "open"
  /\ UNCHANGED <<hookConversationId, agentStatus, socketRef, onMessageRef, frames, ops, trace,
                 delivered, srvTurn, srvStore, lastSend, nonHookVars>>

\* what ws.onmessage makes of agentStatus
MutAgentStatusAfterUnknownClears(e, cur) ==
  IF e.type \in {"agent_status", "agent_start"} THEN << e.agent, " is ", e.status, "..." >>
  ELSE IF e.type = "agent_done" THEN << "Finished: ", e.agent >>
  ELSE IF e.type = "status" THEN << e.message >>
  ELSE IF e.type = "response_chunk" THEN cur
  ELSE NullStatus
MutAgentStatusAfterDoneIgnored(e, cur) ==
  IF e.type \in {"agent_status", "agent_start"} THEN << e.agent, " is ", e.status, "..." >>
  ELSE IF e.type = "status" THEN << e.message >>
  ELSE IF e.type = "response" THEN NullStatus
  ELSE cur
AgentStatusAfter(e, cur) ==
  IF e.type = "agent_status" THEN << e.agent, " is ", e.status, "..." >>
  ELSE IF e.type = "agent_start" THEN << e.agent, " is ", e.status, "..." >>
  ELSE IF e.type = "agent_done" THEN << "Finished: ", e.agent >>
  ELSE IF e.type = "status" THEN << e.message >>
  ELSE IF e.type = "response_chunk" THEN cur
  ELSE IF e.type = "response" THEN NullStatus
  ELSE cur

\* onMessageRef.current(data.data)
MutCallbackArgumentWholeEvent(e) == e
CallbackArgument(e) == e.data

\* ws.onmessage: the next frame of an open socket is dispatched; a text JSON.parse throws on
\* ends in the catch, which only logs
WsMessage(s) ==
  /\ sockets[s].readyState = "OPEN"
  /\ sockets[s].inbox # <<>>
  /\ sockets' = [sockets EXCEPT ![s].inbox = Tail(@)]
  /\ LET parsed == JsonParse(Head(sockets[s].inbox)) IN
       IF parsed = <<>>
       THEN /\ trace' = Append(trace, <<s, NoTurn, "thrown">>)
            /\ UNCHANGED <<agentStatus, delivered>>
       ELSE LET e == parsed[1] IN
            /\ agentStatus' = AgentStatusAfter(e, agentStatus)
            /\ trace' = Append(trace, <<s, e.turn, EventClass(e)>>)
            /\ delivered' = IF e.type = "response" /\ onMessageRef # NoCallback
                            THEN Append(delivered, [cb |-> onMessageRef, turn |-> e.turn,
                                                     at |-> Len(trace) + 1, data |-> CallbackArgument(e)])
                            ELSE delivered
  /\ UNCHANGED <<hookConversationId, status, socketRef, onMessageRef, frames, ops, srvTurn,
                 srvStore, lastSend, nonHookVars>>

\* the connection fails: ws.onerror; the close event follows
WsError(s) ==
  /\ sockets[s].readyState \in {"CONNECTING", "OPEN"}
  /\ sockets' = [sockets EXCEPT ![s].readyState = "CLOSING"]
  /\ status' = "error"
  /\ trace' = trace \o Ended(s)
  /\ UNCHANGED <<hookConversationId, agentStatus, socketRef, onMessageRef, frames, ops,
                 delivered, srvTurn, srvStore, lastSend, nonHookVars>>

\* ws.onclose: after close(), after a failure, or when the peer closes an open socket
WsClose(s) ==
  /\ sockets[s].readyState \in {"OPEN", "CLOSING"}
  /\ sockets' = [sockets EXCEPT ![s].readyState = "CLOSED"]
  /\ status' = "closed"
  /\ trace' = IF sockets[s].readyState = "OPEN" THEN trace \o Ended(s) ELSE trace
  /\ UNCHANGED <<hookConversationId, agentStatus, socketRef, onMessageRef, frames, ops,
                 delivered, srvTurn, srvStore, lastSend, nonHookVars>>

\* sendMessage's test of the socket
MutCanTransmitNotClosed == socketRef # NoSocket /\ sockets[socketRef].readyState \in {"CONNECTING", "OPEN"}
CanTransmit == socketRef # NoSocket /\ sockets[socketRef].readyState = "OPEN"

\* onMessageRef.current = onResponse
MutRegisterCallbackKeepsOld(old, new) == IF old = NoCallback THEN new ELSE old
RegisterCallback(old, new) == new

\* sendMessage(message, onResponse)
SendMessage(m) ==
  /\ ops < MaxOps
  /\ ops' = ops + 1
  /\ IF CanTransmit
     THEN /\ frames' = frames + 1
          /\ onMessageRef' = RegisterCallback(onMessageRef, frames + 1)
          /\ agentStatus' = ProcessingStatus
          /\ trace' = Append(trace, <<socketRef, frames + 1, "send">>)
          /\ sockets' = [sockets EXCEPT ![socketRef].outbox =
                            Append(@, [message |-> m, turn |-> frames + 1])]
          /\ lastSend' = "sent"
     ELSE /\ lastSend' = "refused"
          /\ UNCHANGED <<onMessageRef, agentStatus, frames, trace, sockets>>
  /\ UNCHANGED <<hookConversationId, status, socketRef, delivered, srvTurn, srvStore,
                 nonHookVars>>

\* --------------------------------------- back end of the channel (from the spec)
\* the channel reads the next inbound frame: a turn starts unless the message is blank
\* (ValidationError) or a turn is already running (BusyError); a rejected frame emits nothing
SrvReceive(s) ==
  /\ sockets[s].readyState = "OPEN"
  /\ sockets[s].outbox # <<>>
  /\ LET f == Head(sockets[s].outbox) IN
       srvTurn' = IF srvTurn[s].turn = NoTurn /\ Trim(f.message) # <<>>
                  THEN [srvTurn EXCEPT ![s] = [turn |-> f.turn, emitted |-> 0]]
                  ELSE srvTurn
  /\ sockets' = [sockets EXCEPT ![s].outbox = Tail(@)]
  /\ UNCHANGED <<hookConversationId, status, agentStatus, socketRef, onMessageRef, frames, ops,
                 trace, delivered, srvStore, lastSend, nonHookVars>>

\* the orchestrator emits a progress event of the running turn
SrvEmit(s, e) ==
  /\ sockets[s].readyState = "OPEN"
  /\ srvTurn[s].turn # NoTurn
  /\ ops < MaxOps
  /\ ops' = ops + 1
  /\ e \in SrvProgressEvents(srvTurn[s].turn)
  /\ sockets' = [sockets EXCEPT ![s].inbox = Append(@, JsonStringify(e))]
  /\ srvTurn' = [srvTurn EXCEPT ![s].emitted = @ + 1]
  /\ UNCHANGED <<hookConversationId, status, agentStatus, socketRef, onMessageRef, frames,
                 trace, delivered, srvStore, lastSend, nonHookVars>>

\* the turn ends: the terminal response event is emitted and the turn appended to the store
SrvRespond(s, r) ==
  /\ sockets[s].readyState = "OPEN"
  /\ srvTurn[s].turn # NoTurn
  /\ sockets' = [sockets EXCEPT ![s].inbox =
        Append(@, JsonStringify(Event("response", "", "", "", "", "", SrvSynthesize(r, sockets[s].conv),
                                      srvTurn[s].turn)))]
  /\ srvStore' = SrvAppendTurn(srvStore, sockets[s].conv, srvTurn[s].turn)
  /\ srvTurn' = [srvTurn EXCEPT ![s] = [turn |-> NoTurn, emitted |-> 0]]
  /\ UNCHANGED <<hookConversationId, status, agentStatus, socketRef, onMessageRef, frames, ops,
                 trace, delivered, lastSend, nonHookVars>>

\* a peer that does not keep to the protocol: any frame may arrive on an open socket
PeerFrame(s, text) ==
  /\ sockets[s].readyState = "OPEN"
  /\ ops < MaxOps
  /\ ops' = ops + 1
  /\ sockets' = [sockets EXCEPT ![s].inbox = Append(@, text)]
  /\ UNCHANGED <<hookConversationId, status, agentStatus, socketRef, onMessageRef, frames,
                 trace, delivered, srvTurn, srvStore, lastSend, nonHookVars>>

\* ------------------------------------------- orchestrator pipeline (from the spec)
\* Idle -> Routing -> {Research, Analysis} -> Reasoning -> Action (conditional) -> Done,
\* with Error when every contributing agent failed
SrvQueries == [ needsAction : BOOLEAN, draft : Drafts ]
SrvIdlePipe(q) ==
  [ state |-> "Idle", query |-> q, research |-> "idle", analysis |-> "idle",
    reasoning |-> "idle", action |-> "idle", found |-> {}, log |-> <<>> ]
NoQuery == [ needsAction |-> FALSE, draft |-> 35 ]

SrvFinished(st) == st \in {"done", "error"}

\* the run a pipeline has taken, once Research and Analysis have finished
SrvRunOf(p) ==
  [ needsAction |-> p.query.needsAction, research |-> p.research, analysis |-> p.analysis,
    draft |-> p.query.draft ]

\* what is kept of a pipeline that has ended
SrvOutcome(p) ==
  [ query |-> p.query, failures |-> SrvErrors(SrvRunOf(p)), state |-> p.state,
    confidence |-> SrvSynthesize(SrvRunOf(p), 1).confidence ]

\* a message arrives: Idle (or the end of the previous turn) -> Routing
SrvPipeStart(q) ==
  /\ pipe.state \in {"Idle", "Done", "Error"}
  /\ pipeRuns < MaxRuns
  /\ pipeRuns' = pipeRuns + 1
  /\ pipe' = [SrvIdlePipe(q) EXCEPT !.state = "Routing"]
  /\ UNCHANGED pipeDone

\* Routing has classified the query: Research and Analysis may start
SrvRoute ==
  /\ pipe.state = "Routing"
  /\ pipe' = [pipe EXCEPT !.state = "ResearchAnalysis"]
  /\ UNCHANGED <<pipeRuns, pipeDone>>

SrvResearchStart ==
  /\ pipe.state = "ResearchAnalysis"
  /\ pipe.research = "idle"
  /\ pipe' = [pipe EXCEPT !.research = "executing", !.log = Append(@, <<"research", "start">>)]
  /\ UNCHANGED <<pipeRuns, pipeDone>>

\* Research ends with passages, with nothing, or with an error (its tool failed or timed out)
SrvResearchFinish(out) ==
  /\ pipe.research = "executing"
  /\ pipe' = [pipe EXCEPT !.research = IF out = "error" THEN "error" ELSE "done",
                          !.found = IF out = "output" THEN @ \cup {"research"} ELSE @,
                          !.log = Append(@, <<"research", "finish">>)]
  /\ UNCHANGED <<pipeRuns, pipeDone>>

SrvAnalysisStart ==
  /\ pipe.state = "ResearchAnalysis"
  /\ pipe.analysis = "idle"
  /\ pipe' = [pipe EXCEPT !.analysis = "executing", !.log = Append(@, <<"analyst", "start">>)]
  /\ UNCHANGED <<pipeRuns, pipeDone>>

SrvAnalysisFinish(out) ==
  /\ pipe.analysis = "executing"
  /\ pipe' = [pipe EXCEPT !.analysis = IF out = "error" THEN "error" ELSE "done",
                          !.found = IF out = "output" THEN @ \cup {"analyst"} ELSE @,
                          !.log = Append(@, <<"analyst", "finish">>)]
  /\ UNCHANGED <<pipeRuns, pipeDone>>

\* Reasoning waits for both Research and Analysis
MutSrvCanReasonAfterEither(p) ==
  p.state = "ResearchAnalysis" /\ (SrvFinished(p.research) \/ SrvFinished(p.analysis))
SrvCanReason(p) ==
  p.state = "ResearchAnalysis" /\ SrvFinished(p.research) /\ SrvFinished(p.analysis)

\* both have finished and not both failed: Reasoning starts
SrvReasoningStart ==
  /\ SrvCanReason(pipe)
  /\ ~(pipe.research = "error" /\ pipe.analysis = "error")
  /\ pipe' = [pipe EXCEPT !.state = "Reasoning", !.reasoning = "thinking",
                          !.log = Append(@, <<"reasoning", "start">>)]
  /\ UNCHANGED <<pipeRuns, pipeDone>>

\* every contributing agent failed: Error
SrvPipeFail ==
  /\ SrvCanReason(pipe)
  /\ pipe.research = "error" /\ pipe.analysis = "error"
  /\ pipe' = [pipe EXCEPT !.state = "Error"]
  /\ pipeDone' = pipeDone \cup { SrvOutcome(pipe') }
  /\ UNCHANGED pipeRuns

\* Reasoning has its draft and confidence; Action is entered on actionable intent and
\* enough confidence, else the pipeline is Done (Action stays idle)
SrvReasoningFinish ==
  /\ pipe.state = "Reasoning"
  /\ pipe.reasoning = "thinking"
  /\ IF SrvActionRuns(SrvRunOf(pipe))
     THEN /\ pipe' = [pipe EXCEPT !.state = "Action", !.reasoning = "done",
                                  !.log = Append(@, <<"reasoning", "finish">>)]
          /\ UNCHANGED pipeDone
     ELSE /\ pipe' = [pipe EXCEPT !.state = "Done", !.reasoning = "done",
                                  !.log = Append(@, <<"reasoning", "finish">>)]
          /\ pipeDone' = pipeDone \cup { SrvOutcome(pipe') }
  /\ UNCHANGED pipeRuns

SrvActionStart ==
  /\ pipe.state = "Action"
  /\ pipe.action = "idle"
  /\ pipe' = [pipe EXCEPT !.action = "executing", !.log = Append(@, <<"action", "start">>)]
  /\ UNCHANGED <<pipeRuns, pipeDone>>

SrvActionFinish ==
  /\ pipe.state = "Action"
  /\ pipe.action = "executing"
  /\ pipe' = [pipe EXCEPT !.state = "Done", !.action = "done",
                          !.log = Append(@, <<"action", "finish">>)]
  /\ pipeDone' = pipeDone \cup { SrvOutcome(pipe') }
  /\ UNCHANGED pipeRuns

PipeInit ==
  /\ pipe = SrvIdlePipe(NoQuery)
  /\ pipeRuns = 0
  /\ pipeDone = {}

SrvOutputs == { "output", "nothing", "error" }

PipeNext ==
  /\ \/ \E q \in SrvQueries : SrvPipeStart(q)
     \/ SrvRoute
     \/ SrvResearchStart
     \/ \E out \in SrvOutputs : SrvResearchFinish(out)
     \/ SrvAnalysisStart
     \/ \E out \in SrvOutputs : SrvAnalysisFinish(out)
     \/ SrvReasoningStart
     \/ SrvPipeFail
     \/ SrvReasoningFinish
     \/ SrvActionStart
     \/ SrvActionFinish
  /\ UNCHANGED <<chatVars, hookVars, srvStore, lastOp, reportVars, notifVars, docVars>>

\* ------------------------------------------------------------- Reports page
\* the texts typed into the title and the recipients inputs
ReportTitles == { <<>>, <<SP>>, <<"t">> }
RecipientTexts == { <<>>, <<SP>>, <<"a">>, <<"a", ",", SP, "b">> }
\* the options of the selects
ReportTypeOptions == { "daily_summary", "weekly_analysis", "monthly_report", "custom" }
FormatOptions == { "pdf", "html", "markdown" }
MutFrequencyOptionsWithHourly == { "hourly", "daily", "weekly", "monthly" }
FrequencyOptions == { "daily", "weekly", "monthly" }
\* the numbers typed into the time range input
DayInputs == { 1, 30 }

\* String.prototype.split(','): the pieces between the commas
RECURSIVE SplitComma(_, _)
SplitComma(s, piece) ==
  IF s = <<>> THEN << piece >>
  ELSE IF Head(s) = "," THEN << piece >> \o SplitComma(Tail(s), <<>>)
  ELSE SplitComma(Tail(s), Append(piece, Head(s)))

\* scheduleRecipients.split(',').map((r) => r.trim())
RecipientList(s) ==
  LET pieces == SplitComma(s, <<>>) IN [i \in 1 .. Len(pieces) |-> Trim(pieces[i])]

\* the body of POST /reports/schedule
ScheduleBody ==
  [ title |-> reportTitle, report_type |-> reportType, frequency |-> scheduleFrequency,
    recipients |-> RecipientList(scheduleRecipients) ]

\* the body of POST /reports/generate
GenerateBody ==
  [ title |-> reportTitle, report_type |-> reportType, format |-> reportFormat,
    time_range_days |-> timeRangeDays, include_ai_analysis |-> includeAI ]

\* resetForm
ResetForm ==
  /\ reportTitle' = <<>>
  /\ reportType' = "weekly_analysis"
  /\ reportFormat' = "pdf"
  /\ timeRangeDays' = 7
  /\ includeAI' = TRUE
  /\ scheduleFrequency' = "weekly"
  /\ scheduleRecipients' = <<>>

formVars == <<reportTitle, reportType, reportFormat, timeRangeDays, includeAI,
              scheduleFrequency, scheduleRecipients>>

\* the page's buttons; an open modal covers them
OpenScheduleModal ==
  /\ ~showScheduleModal /\ ~showGenerateModal
  /\ showScheduleModal' = TRUE
  /\ UNCHANGED <<formVars, showGenerateModal, generating, reportPosts, reportEdits,
                 reports, scheduledReports>>

OpenGenerateModal ==
  /\ ~showScheduleModal /\ ~showGenerateModal
  /\ showGenerateModal' = TRUE
  /\ UNCHANGED <<formVars, showScheduleModal, generating, reportPosts, reportEdits,
                 reports, scheduledReports>>

\* the Cancel buttons: the modal is hidden, the form is left as it is
CancelSchedule ==
  /\ showScheduleModal
  /\ showScheduleModal' = FALSE
  /\ UNCHANGED <<formVars, showGenerateModal, generating, reportPosts, reportEdits,
                 reports, scheduledReports>>

CancelGenerate ==
  /\ showGenerateModal
  /\ showGenerateModal' = FALSE
  /\ UNCHANGED <<formVars, showScheduleModal, generating, reportPosts, reportEdits,
                 reports, scheduledReports>>

\* the modals' onClose (close button, overlay, Escape): hidden and reset
CloseScheduleModal ==
  /\ showScheduleModal
  /\ showScheduleModal' = FALSE
  /\ ResetForm
  /\ UNCHANGED <<showGenerateModal, generating, reportPosts, reportEdits, reports, scheduledReports>>

CloseGenerateModal ==
  /\ showGenerateModal
  /\ showGenerateModal' = FALSE
  /\ ResetForm
  /\ UNCHANGED <<showScheduleModal, generating, reportPosts, reportEdits, reports, scheduledReports>>

\* an input of an open modal changes
CanEdit(open) == open /\ reportEdits < MaxEdits
Edited ==
  /\ reportEdits' = reportEdits + 1
  /\ UNCHANGED <<showScheduleModal, showGenerateModal, generating, reportPosts, reports,
                 scheduledReports>>

SetReportTitle(t) ==
  /\ CanEdit(showScheduleModal \/ showGenerateModal)
  /\ reportTitle' = t
  /\ Edited
  /\ UNCHANGED <<reportType, reportFormat, timeRangeDays, includeAI, scheduleFrequency,
                 scheduleRecipients>>

SetReportType(v) ==
  /\ CanEdit(showScheduleModal \/ showGenerateModal)
  /\ reportType' = v
  /\ Edited
  /\ UNCHANGED <<reportTitle, reportFormat, timeRangeDays, includeAI, scheduleFrequency,
                 scheduleRecipients>>

SetReportFormat(v) ==
  /\ CanEdit(showGenerateModal)
  /\ reportFormat' = v
  /\ Edited
  /\ UNCHANGED <<reportTitle, reportType, timeRangeDays, includeAI, scheduleFrequency,
                 scheduleRecipients>>

SetTimeRangeDays(n) ==
  /\ CanEdit(showGenerateModal)
  /\ timeRangeDays' = n
  /\ Edited
  /\ UNCHANGED <<reportTitle, reportType, reportFormat, includeAI, scheduleFrequency,
                 scheduleRecipients>>

SetIncludeAI(b) ==
  /\ CanEdit(showGenerateModal)
  /\ includeAI' = b
  /\ Edited
  /\ UNCHANGED <<reportTitle, reportType, reportFormat, timeRangeDays, scheduleFrequency,
                 scheduleRecipients>>

SetScheduleFrequency(v) ==
  /\ CanEdit(showScheduleModal)
  /\ scheduleFrequency' = v
  /\ Edited
  /\ UNCHANGED <<reportTitle, reportType, reportFormat, timeRangeDays, includeAI,
                 scheduleRecipients>>

SetScheduleRecipients(s) ==
  /\ CanEdit(showScheduleModal)
  /\ scheduleRecipients' = s
  /\ Edited
  /\ UNCHANGED <<reportTitle, reportType, reportFormat, timeRangeDays, includeAI,
                 scheduleFrequency>>

\* handleScheduleReport up to its await
HandleScheduleReport ==
  /\ showScheduleModal
  /\ IF Trim(reportTitle) = <<>> \/ Trim(scheduleRecipients) = <<>>
     THEN UNCHANGED reportPosts
     ELSE /\ Len(reportPosts) < MaxPosts
          /\ reportPosts' = Append(reportPosts,
                                   [kind |-> "schedule", phase |-> "pending", body |-> ScheduleBody])
  /\ UNCHANGED <<formVars, showScheduleModal, showGenerateModal, generating, reportEdits,
                 reports, scheduledReports>>

\* handleGenerateReport up to its await; the Generate button is disabled while generating
HandleGenerateReport ==
  /\ showGenerateModal
  /\ ~generating
  /\ IF Trim(reportTitle) = <<>>
     THEN UNCHANGED <<reportPosts, generating>>
     ELSE /\ Len(reportPosts) < MaxPosts
          /\ generating' = TRUE
          /\ reportPosts' = Append(reportPosts,
                                   [kind |-> "generate", phase |-> "pending", body |-> GenerateBody])
  /\ UNCHANGED <<formVars, showScheduleModal, showGenerateModal, reportEdits, reports,
                 scheduledReports>>

\* what GET /reports/ and GET /reports/schedule return once post i has been accepted
SrvReportList(posts, kind) ==
  LET bodies == [i \in 1 .. Len(posts) |-> posts[i].body]
      kept == { i \in 1 .. Len(posts) : posts[i].kind = kind /\ posts[i].phase = "done" }
      RECURSIVE Pick(_)
      Pick(n) == IF n = 0 THEN <<>>
                 ELSE IF n \in kept THEN Append(Pick(n - 1), bodies[n]) ELSE Pick(n - 1)
  IN Pick(Len(posts))

\* the awaited post i succeeded: fetchReports, the modal is hidden, resetForm (and finally)
ReportPostResolved(i) ==
  /\ reportPosts[i].phase = "pending"
  /\ reportPosts' = [reportPosts EXCEPT ![i].phase = "done"]
  /\ reports' = SrvReportList(reportPosts', "generate")
  /\ scheduledReports' = SrvReportList(reportPosts', "schedule")
  /\ ResetForm
  /\ IF reportPosts[i].kind = "schedule"
     THEN /\ showScheduleModal' = FALSE
          /\ UNCHANGED <<showGenerateModal, generating>>
     ELSE /\ showGenerateModal' = FALSE
          /\ generating' = FALSE
          /\ UNCHANGED showScheduleModal
  /\ UNCHANGED reportEdits

\* the awaited post i failed: catch (and finally)
ReportPostRejected(i) ==
  /\ reportPosts[i].phase = "pending"
  /\ reportPosts' = [reportPosts EXCEPT ![i].phase = "failed"]
  /\ generating' = IF reportPosts[i].kind = "generate" THEN FALSE ELSE generating
  /\ UNCHANGED <<formVars, showScheduleModal, showGenerateModal, reportEdits, reports,
                 scheduledReports>>

ReportsInit ==
  /\ reportTitle = <<>>
  /\ reportType = "weekly_analysis"
  /\ reportFormat = "pdf"
  /\ timeRangeDays = 7
  /\ includeAI = TRUE
  /\ scheduleFrequency = "weekly"
  /\ scheduleRecipients = <<>>
  /\ showGenerateModal = FALSE
  /\ showScheduleModal = FALSE
  /\ generating = FALSE
  /\ reports = <<>>
  /\ scheduledReports = <<>>
  /\ reportPosts = <<>>
  /\ reportEdits = 0

ReportsNext ==
  /\ \/ OpenScheduleModal
     \/ OpenGenerateModal
     \/ CancelSchedule
     \/ CancelGenerate
     \/ CloseScheduleModal
     \/ CloseGenerateModal
     \/ \E t \in ReportTitles : SetReportTitle(t)
     \/ \E v \in ReportTypeOptions : SetReportType(v)
     \/ \E v \in FormatOptions : SetReportFormat(v)
     \/ \E n \in DayInputs : SetTimeRangeDays(n)
     \/ \E b \in BOOLEAN : SetIncludeAI(b)
     \/ \E v \in FrequencyOptions : SetScheduleFrequency(v)
     \/ \E s \in RecipientTexts : SetScheduleRecipients(s)
     \/ HandleScheduleReport
     \/ HandleGenerateReport
     \/ \E i \in 1 .. Len(reportPosts) : ReportPostResolved(i)
     \/ \E i \in 1 .. Len(reportPosts) : ReportPostRejected(i)
  /\ UNCHANGED <<chatVars, hookVars, srvStore, lastOp, pipeVars, notifVars, docVars>>

\* ------------------------------------------------------- Notifications page
\* the alerts the server holds, and the list the page falls back to when a fetch fails
AlertIds == { "1", "2" }
MockNotifications == << [id |-> "1", is_read |-> FALSE] >>

\* GET /insights/alerts: the alerts of the server, in the order of their ids
SrvAlertList(alerts) ==
  << [id |-> "1", is_read |-> alerts["1"]], [id |-> "2", is_read |-> alerts["2"]] >>

\* a request of the page on its way: the ids it marks, the ids the server has still to
\* handle, and the list a GET brings back
NotifCall(n, kind, ids) ==
  [ n |-> n, kind |-> kind, ids |-> ids, todo |-> ids, phase |-> "request", data |-> <<>> ]

UnreadIds ==
  { notifications[i].id : i \in { j \in 1 .. Len(notifications) : ~notifications[j].is_read } }
\* filteredNotifications: what the page lists
Shown(id) ==
  \E i \in 1 .. Len(notifications) :
    notifications[i].id = id /\ (notifFilter = "all" \/ ~notifications[i].is_read)

\* fetchNotifications up to its await: on mount, and on every tick of the interval
FetchNotifications ==
  /\ notifIssued < MaxCalls
  /\ notifIssued' = notifIssued + 1
  /\ notifCalls' = notifCalls \cup { NotifCall(notifIssued + 1, "get", {}) }
  /\ UNCHANGED <<notifications, notifLoading, notifFilter, srvAlerts, notifMarked, notifDeleted>>

\* the server answers a GET with the alerts as they are now
SrvAlertsGet(x) ==
  /\ x.kind = "get" /\ x.phase = "request"
  /\ notifCalls' = (notifCalls \ {x}) \cup
                     { [x EXCEPT !.phase = "response", !.data = SrvAlertList(srvAlerts)] }
  /\ UNCHANGED <<notifications, notifLoading, notifFilter, notifIssued, srvAlerts, notifMarked,
                 notifDeleted>>

\* fetchNotifications after its await: setNotifications(response.data) when it resolved,
\* the mock list when it rejected; finally
FetchNotificationsSettled(x, ok) ==
  /\ x.kind = "get"
  /\ ok => x.phase = "response"
  /\ notifCalls' = notifCalls \ {x}
  /\ notifications' = IF ok THEN x.data ELSE MockNotifications
  /\ notifLoading' = FALSE
  /\ UNCHANGED <<notifFilter, notifIssued, srvAlerts, notifMarked, notifDeleted>>

\* markAsRead(id) up to its await; the button is shown on an unread notification
MarkAsRead(id) ==
  /\ ~notifLoading
  /\ Shown(id) /\ id \in UnreadIds
  /\ notifIssued < MaxCalls
  /\ notifIssued' = notifIssued + 1
  /\ notifCalls' = notifCalls \cup { NotifCall(notifIssued + 1, "read", {id}) }
  /\ UNCHANGED <<notifications, notifLoading, notifFilter, srvAlerts, notifMarked, notifDeleted>>

\* markAllAsRead up to its await: one POST for each notification that is unread now
MarkAllAsRead ==
  /\ ~notifLoading
  /\ UnreadIds # {}
  /\ notifIssued < MaxCalls
  /\ notifIssued' = notifIssued + 1
  /\ notifCalls' = notifCalls \cup { NotifCall(notifIssued + 1, "readAll", UnreadIds) }
  /\ UNCHANGED <<notifications, notifLoading, notifFilter, srvAlerts, notifMarked, notifDeleted>>

\* the server handles POST /insights/alerts/{id}/read
SrvAlertRead(x, id) ==
  /\ x.kind \in {"read", "readAll"} /\ x.phase = "request"
  /\ id \in x.todo
  /\ srvAlerts' = [srvAlerts EXCEPT ![id] = TRUE]
  /\ notifCalls' = (notifCalls \ {x}) \cup
                     { [x EXCEPT !.todo = @ \ {id},
                                 !.phase = IF x.todo = {id} THEN "response" ELSE "request"] }
  /\ UNCHANGED <<notifications, notifLoading, notifFilter, notifIssued, notifMarked, notifDeleted>>

\* setNotifications(prev => prev.map(...)) of markAsRead and of markAllAsRead
MarkedList(prev, kind, ids) ==
  [ i \in 1 .. Len(prev) |->
      IF kind = "readAll" \/ prev[i].id \in ids THEN [prev[i] EXCEPT !.is_read = TRUE] ELSE prev[i] ]

\* markAsRead / markAllAsRead after the await: the list is patched when it resolved; the
\* catch only logs
MarkSettled(x, ok) ==
  /\ x.kind \in {"read", "readAll"}
  /\ ok => x.phase = "response"
  /\ notifCalls' = notifCalls \ {x}
  /\ notifications' = IF ok THEN MarkedList(notifications, x.kind, x.ids) ELSE notifications
  /\ notifMarked' = IF ok /\ x.kind = "read" THEN notifMarked \cup x.ids ELSE notifMarked
  /\ UNCHANGED <<notifLoading, notifFilter, notifIssued, srvAlerts, notifDeleted>>

\* deleteNotification(id): the list is filtered; no request is made
DeleteNotification(id) ==
  /\ ~notifLoading
  /\ Shown(id)
  /\ notifications' = SelectSeq(notifications, LAMBDA n : n.id # id)
  /\ notifDeleted' = notifDeleted \cup {id}
  /\ UNCHANGED <<notifLoading, notifFilter, notifCalls, notifIssued, srvAlerts, notifMarked>>

\* the All / Unread buttons
SetFilter(f) ==
  /\ ~notifLoading
  /\ f # notifFilter
  /\ notifFilter' = f
  /\ UNCHANGED <<notifications, notifLoading, notifCalls, notifIssued, srvAlerts, notifMarked,
                 notifDeleted>>

NotifInit ==
  /\ notifications = <<>>
  /\ notifLoading = TRUE
  /\ notifFilter = "all"
  /\ notifCalls = {}
  /\ notifIssued = 0
  /\ srvAlerts = [a \in AlertIds |-> FALSE]
  /\ notifMarked = {}
  /\ notifDeleted = {}

NotifNext ==
  /\ \/ FetchNotifications
     \/ \E x \in notifCalls : SrvAlertsGet(x)
     \/ \E x \in notifCalls, ok \in BOOLEAN : FetchNotificationsSettled(x, ok)
     \/ \E id \in AlertIds : MarkAsRead(id)
     \/ MarkAllAsRead
     \/ \E x \in notifCalls, id \in AlertIds : SrvAlertRead(x, id)
     \/ \E x \in notifCalls, ok \in BOOLEAN : MarkSettled(x, ok)
     \/ \E id \in AlertIds : DeleteNotification(id)
     \/ \E f \in {"all", "unread"} : SetFilter(f)
  /\ UNCHANGED <<chatVars, hookVars, srvStore, lastOp, pipeVars, reportVars, docVars>>

\* ----------------------------------------------------------- Documents page
\* (the upload path: fetchDocuments, the selection of files, the upload modal, handleUpload)
\* the four documents of the list the page falls back to when a fetch fails
MockDocuments == << 1001, 1002, 1003, 1004 >>
\* the posts of run r of handleUpload, in the order they were made
RunPosts(r) == SelectSeq(docPosts, LAMBDA p : p.run = r)

\* the server answers GET /documents/ with the documents it has stored
SrvDocList(x) ==
  /\ x.phase = "request"
  /\ docFetches' = (docFetches \ {x}) \cup { [x EXCEPT !.phase = "response", !.data = srvDocs] }
  /\ UNCHANGED <<documents, docLoading, uploading, showUploadModal, selectedFiles, docRuns,
                 docPosts, srvDocs, docSelected>>

\* fetchDocuments after its await: the list of the response when it resolved, the mock
\* list when it rejected, finally setLoading(false); when handleUpload awaited it (run is
\* not 0, the fetch of the mount effect), the rest of its try block and its finally
FetchDocumentsSettled(x, ok) ==
  /\ ok => x.phase = "response"
  /\ documents' = IF ok THEN x.data ELSE MockDocuments
  /\ docFetches' = docFetches \ {x}
  /\ docLoading' = FALSE
  /\ IF x.run = 0
     THEN UNCHANGED <<uploading, showUploadModal, selectedFiles, docRuns>>
     ELSE /\ showUploadModal' = FALSE
          /\ selectedFiles' = <<>>
          /\ uploading' = FALSE
          /\ docRuns' = [docRuns EXCEPT ![x.run].state = "done"]
  /\ UNCHANGED <<docPosts, srvDocs, docSelected>>

\* handleFileSelect / handleDrop with n files: through the drop zone of the page, or
\* through the input the modal shows while nothing is selected
SelectFiles(n) ==
  /\ ~docLoading
  /\ ~showUploadModal \/ selectedFiles = <<>>
  /\ docSelected + n <= MaxFiles
  /\ docSelected' = docSelected + n
  /\ selectedFiles' = selectedFiles \o [i \in 1 .. n |-> docSelected + i]
  /\ showUploadModal' = TRUE
  /\ UNCHANGED <<documents, docLoading, uploading, docRuns, docPosts, docFetches, srvDocs>>

\* the Upload button of the page
OpenUploadModal ==
  /\ ~docLoading
  /\ ~showUploadModal
  /\ showUploadModal' = TRUE
  /\ UNCHANGED <<documents, docLoading, uploading, selectedFiles, docRuns, docPosts, docFetches,
                 srvDocs, docSelected>>

\* the X of a selected file: setSelectedFiles(prev => prev.filter((_, i) => i !== idx))
RemoveSelectedFile(idx) ==
  /\ showUploadModal
  /\ idx \in 1 .. Len(selectedFiles)
  /\ selectedFiles' = [i \in 1 .. Len(selectedFiles) - 1 |->
                         IF i < idx THEN selectedFiles[i] ELSE selectedFiles[i + 1]]
  /\ UNCHANGED <<documents, docLoading, uploading, showUploadModal, docRuns, docPosts,
                 docFetches, srvDocs, docSelected>>

\* the modal's onClose and its Cancel button
CloseUploadModal ==
  /\ showUploadModal
  /\ showUploadModal' = FALSE
  /\ selectedFiles' = <<>>
  /\ UNCHANGED <<documents, docLoading, uploading, docRuns, docPosts, docFetches, srvDocs,
                 docSelected>>

\* handleUpload up to its first await; the button is disabled while uploading
HandleUpload ==
  /\ showUploadModal
  /\ ~uploading
  /\ selectedFiles # <<>>
  /\ Len(docPosts) < MaxUploads
  /\ uploading' = TRUE
  /\ docRuns' = Append(docRuns, [files |-> selectedFiles, state |-> "posting"])
  /\ docPosts' = Append(docPosts, [ run |-> Len(docRuns) + 1, file |-> selectedFiles[1],
                                     phase |-> "pending" ])
  /\ UNCHANGED <<documents, docLoading, showUploadModal, selectedFiles, docFetches, srvDocs,
                 docSelected>>

\* the server stores the file of POST /documents/upload
SrvUpload(i) ==
  /\ docPosts[i].phase = "pending"
  /\ docPosts' = [docPosts EXCEPT ![i].phase = "stored"]
  /\ srvDocs' = Append(srvDocs, docPosts[i].file)
  /\ UNCHANGED <<documents, docLoading, uploading, showUploadModal, selectedFiles, docRuns,
                 docFetches, docSelected>>

\* the awaited post resolved: the loop posts the next file of the list it started with,
\* or, after the last one, handleUpload awaits fetchDocuments
UploadPostResolved(i) ==
  /\ docPosts[i].phase = "stored"
  /\ LET r == docPosts[i].run
         files == docRuns[r].files
         made == Len(RunPosts(r))
     IN IF made < Len(files)
        THEN /\ Len(docPosts) < MaxUploads
             /\ docPosts' = Append([docPosts EXCEPT ![i].phase = "done"],
                                   [ run |-> r, file |-> files[made + 1], phase |-> "pending" ])
             /\ UNCHANGED <<docRuns, docFetches>>
        ELSE /\ docPosts' = [docPosts EXCEPT ![i].phase = "done"]
             /\ docRuns' = [docRuns EXCEPT ![r].state = "fetching"]
             /\ docFetches' = docFetches \cup { [run |-> r, phase |-> "request", data |-> <<>>] }
  /\ UNCHANGED <<documents, docLoading, uploading, showUploadModal, selectedFiles, srvDocs,
                 docSelected>>

\* the awaited post rejected: catch, finally
UploadPostRejected(i) ==
  /\ docPosts[i].phase \in {"pending", "stored"}
  /\ docPosts' = [docPosts EXCEPT ![i].phase = "failed"]
  /\ docRuns' = [docRuns EXCEPT ![docPosts[i].run].state = "failed"]
  /\ uploading' = FALSE
  /\ UNCHANGED <<documents, docLoading, showUploadModal, selectedFiles, docFetches, srvDocs,
                 docSelected>>

DocInit ==
  /\ documents = <<>>
  /\ docLoading = TRUE
  /\ uploading = FALSE
  /\ showUploadModal = FALSE
  /\ selectedFiles = <<>>
  /\ docRuns = <<>>
  /\ docPosts = <<>>
  /\ docFetches = { [run |-> 0, phase |-> "request", data |-> <<>>] }
  /\ srvDocs = <<>>
  /\ docSelected = 0

DocNext ==
  /\ \/ \E x \in docFetches : SrvDocList(x)
     \/ \E x \in docFetches, ok \in BOOLEAN : FetchDocumentsSettled(x, ok)
     \/ \E n \in 1 .. 2 : SelectFiles(n)
     \/ OpenUploadModal
     \/ \E idx \in 1 .. Len(selectedFiles) : RemoveSelectedFile(idx)
     \/ CloseUploadModal
     \/ HandleUpload
     \/ \E i \in 1 .. Len(docPosts) : SrvUpload(i)
     \/ \E i \in 1 .. Len(docPosts) : UploadPostResolved(i)
     \/ \E i \in 1 .. Len(docPosts) : UploadPostRejected(i)
  /\ UNCHANGED <<chatVars, hookVars, srvStore, lastOp, pipeVars, reportVars, notifVars>>

HookInit ==
  /\ hookConversationId = NoId
  /\ status = "closed"
  /\ agentStatus = NullStatus
  /\ socketRef = NoSocket
  /\ onMessageRef = NoCallback
  /\ sockets = [s \in SocketIds |-> UnusedSocket]
  /\ frames = 0
  /\ ops = 0
  /\ trace = <<>>
  /\ delivered = <<>>
  /\ lastSend = "none"
  /\ srvTurn = [s \in SocketIds |-> [turn |-> NoTurn, emitted |-> 0]]

ChatInit ==
  /\ messages = <<>>
  /\ input = <<>>
  /\ loading = FALSE
  /\ conversationId = NoId
  /\ http = {}
  /\ turns = 0
  /\ now = 0
  /\ messageIds = <<>>

Init ==
  /\ ChatInit
  /\ HookInit
  /\ srvStore = [c \in ConvIds |-> <<>>]
  /\ lastOp = Op("init", <<>>, {}, "")
  /\ PipeInit
  /\ ReportsInit
  /\ NotifInit
  /\ DocInit

ChatNext ==
  \/ \E s \in Inputs : SetInput(s)
  \/ HandleSend
  \/ \E x \in http, r \in SrvRuns : SrvHandle(x, r)
  \/ \E x \in http : HandleSendResolved(x)
  \/ \E x \in http, e \in ErrorDetails : HandleSendRejected(x, e)

\* the handlers read the clock only to make ids: ChatSpec explores them within one
\* millisecond, ChatClockSpec lets the clock advance between any two of them
ChatSpec == Init /\ [][ChatNext]_vars

ChatClockNext == ChatNext \/ Tick
ChatClockSpec == Init /\ [][ChatClockNext]_vars

HookNext ==
  \/ \E c \in HookConvs \cup {NoId} : SetConversationId(c)
  \/ \E s \in SocketIds : WsOpen(s)
  \/ \E s \in SocketIds : WsMessage(s)
  \/ \E s \in SocketIds : WsError(s)
  \/ \E s \in SocketIds : WsClose(s)
  \/ \E m \in HookInputs : SendMessage(m)
  \/ \E s \in SocketIds : SrvReceive(s)
  \/ \E s \in SocketIds : \E e \in SrvProgressEvents(srvTurn[s].turn) : SrvEmit(s, e)
  \/ \E s \in SocketIds, r \in HookRuns : SrvRespond(s, r)

HookSpec == Init /\ [][HookNext]_vars

\* the hook on one conversation whose peer may send any frame
HookFrameNext ==
  \/ SetConversationId(1)
  \/ \E s \in SocketIds : WsOpen(s)
  \/ \E s \in SocketIds : WsMessage(s)
  \/ SendMessage(<<"q">>)
  \/ \E s \in SocketIds : SrvReceive(s)
  \/ \E s \in SocketIds, r \in HookRuns : SrvRespond(s, r)
  \/ \E s \in SocketIds, text \in PeerFrames : PeerFrame(s, text)

HookFrameSpec == Init /\ [][HookFrameNext]_vars

PipeSpec == Init /\ [][PipeNext]_vars

ReportsSpec == Init /\ [][ReportsNext]_vars

NotifSpec == Init /\ [][NotifNext]_vars

DocSpec == Init /\ [][DocNext]_vars

\* ------------------------------------------------------------------ claims
ChatMessages == { messages[i] : i \in 1 .. Len(messages) }

C4_ConversationIdStable ==
  [][ /\ (conversationId # NoId => conversationId' = conversationId)
      /\ (lastOp'.op # "resolved" => conversationId' = conversationId)
      /\ (lastOp'.op = "resolved" => conversationId' # NoId)
      /\ (messages = <<>> => conversationId = NoId)
      /\ \A x \in http' \ http :
            x.phase = "request" => x.req.conversation_id = conversationId ]_vars

\* the first turn was answered and the request of the second turn carries the id it brought
C4_Witness ==
  /\ conversationId # NoId
  /\ Len(messages) = 3
  /\ \E x \in http : x.turn = 2 /\ x.phase = "request" /\ x.req.conversation_id = conversationId

\* C6: a failed send appends exactly the fixed apology, an assistant message with no
\* sources, confidence, agent steps, charts or actions and none of the error's text;
\* the conversation id and the earlier messages stay as they were
C6_FailureShowsApologyOnly ==
  [][ lastOp'.op = "rejected" =>
        /\ Len(messages') = Len(messages) + 1
        /\ SubSeq(messages', 1, Len(messages)) = messages
        /\ LET m == messages'[Len(messages')] IN
             /\ m.role = "assistant"
             /\ m.content = ApologyText
             /\ \A i \in 1 .. Len(m.content) : m.content[i] \notin ErrorDetails
             /\ m.sources = Absent /\ m.confidence = Absent /\ m.agentSteps = Absent
             /\ m.charts = Absent /\ m.actionsTaken = Absent
        /\ conversationId' = conversationId ]_vars

\* a send has failed on a conversation that already has an id and an answered turn
C6_Witness ==
  /\ lastOp.op = "rejected"
  /\ conversationId # NoId
  /\ Len(messages) = 4
  /\ messages[4].content = ApologyText

\* C8: the confidence of every FinalPayload on its way to the page, and of every
\* message of the list that has one, lies in [0, 1] (0 .. 100 hundredths)
C8_ConfidenceInUnitInterval ==
  /\ \A x \in http : x.phase = "response" => x.data.confidence \in 0 .. 100
  /\ \A m \in ChatMessages : \A c \in m.confidence : c \in 0 .. 100

\* the list holds an answer whose confidence was clamped from above and an apology with confidence 0
C8_Witness ==
  /\ \E m \in ChatMessages : m.content = SrvAnswerText /\ m.confidence = Present(100)
  /\ \E m \in ChatMessages : m.content = SrvApologyText /\ m.confidence = Present(0)

\* C9: a message shows actions only if its turn has an action step that ran and its
\* confidence reached the threshold; below the threshold every action step is idle
\* and no action is shown
C9_ActionsNeedConfidence ==
  \A m \in ChatMessages :
    \A acts \in m.actionsTaken : \A conf \in m.confidence : \A steps \in m.agentSteps :
      LET actionSteps == { steps[i] : i \in { j \in 1 .. Len(steps) : steps[j].agent = "action" } } IN
        /\ (acts # <<>> => conf >= Threshold /\ \E st \in actionSteps : st.status = "done")
        /\ (conf < Threshold => acts = <<>> /\ \A st \in actionSteps : st.status = "idle")

\* the list holds an answer whose action was skipped for lack of confidence, and one whose action ran
C9_Witness ==
  /\ \E m \in ChatMessages :
       /\ m.actionsTaken = Present(<<>>)
       /\ \E steps \in m.agentSteps : \E i \in 1 .. Len(steps) :
            steps[i] = [agent |-> "action", status |-> "idle"]
       /\ \E conf \in m.confidence : conf < Threshold
  /\ \E m \in ChatMessages : \E acts \in m.actionsTaken : acts # <<>>

\* ---------------------------------------------------------- claims on the hook
TraceIdx == 1 .. Len(trace)
EndOf(s) == <<s, NoTurn, "end">>
\* the trace without the entries of sockets ending
HookDoings == SelectSeq(trace, LAMBDA en : en[3] # "end")

\* turn t was aborted at entry j of the trace: an agent event of it had been handled on
\* a socket that stopped being open at j, before any response of t was handled
AbortedAt(t, j) ==
  /\ trace[j][3] = "end"
  /\ \E i \in 1 .. (j - 1) : trace[i] = <<trace[j][1], t, "agent">>
  /\ \A k \in 1 .. (j - 1) : ~(trace[k][2] = t /\ trace[k][3] = "response")

\* the last entry of doings that is one of the kinds, or 0
LastOf(doings, kinds) ==
  LET at == { i \in 1 .. Len(doings) : doings[i][3] \in kinds } IN
    IF at = {} THEN 0 ELSE CHOOSE i \in at : \A k \in at : k <= i

\* C1: nothing of a turn is handled after the turn's response (so its agent events come
\* before it and it has one response), and once a response has been handled agentStatus
\* is null until sendMessage next transmits
C1_EventsPrecedeResponse ==
  /\ \A i, j \in TraceIdx :
       (i < j /\ trace[i][3] = "response") => trace[j][2] # trace[i][2]
  /\ (LastOf(HookDoings, {"response"}) > LastOf(HookDoings, {"send"})) => agentStatus = NullStatus

\* the frames transmitted on a socket that is still open whose response has not been handled
HookInFlight ==
  { t \in 1 .. frames :
      \E i \in TraceIdx :
        /\ trace[i][2] = t /\ trace[i][3] = "send"
        /\ sockets[trace[i][1]].readyState = "OPEN"
        /\ \A k \in TraceIdx : ~(trace[k][2] = t /\ trace[k][3] = "response") }

\* C2: at most one exchange is in flight on a conversation, on the Chat page and on the hook
C2_SingleExchangeInFlight ==
  /\ Cardinality(http) <= 1
  /\ Cardinality(HookInFlight) <= 1

\* C5: once a socket has stopped being open no event is handled on it, so no response
\* of a turn aborted on it is handled; the callback registered by the aborted turn is not
\* called from then on; and a turn still running on a channel that has ended is not in
\* the store
C5_AbortedTurnLeavesNothing ==
  /\ \A i, j \in TraceIdx : (i < j /\ trace[i][3] = "end") => trace[j][1] # trace[i][1]
  /\ \A t \in 1 .. frames : \A j \in TraceIdx :
       AbortedAt(t, j) =>
         /\ \A k \in TraceIdx : k > j => ~(trace[k][2] = t /\ trace[k][3] = "response")
         /\ \A k \in 1 .. Len(delivered) :
              delivered[k].at > j => delivered[k].cb # t /\ delivered[k].turn # t
  /\ \A s \in SocketIds :
       (srvTurn[s].turn # NoTurn /\ sockets[s].readyState # "OPEN")
          => \A c \in ConvIds : \A k \in 1 .. Len(srvStore[c]) : srvStore[c][k][1] # srvTurn[s].turn

\* a turn was aborted and a later turn, on another socket, has been answered
C5_Witness ==
  \E t \in 1 .. frames : \E j \in TraceIdx :
    /\ AbortedAt(t, j)
    /\ \E k \in 1 .. Len(delivered) : delivered[k].at > j

\* the socket of the current conversation has closed
CurrentClosed ==
  /\ hookConversationId # NoId
  /\ socketRef # NoSocket
  /\ sockets[socketRef].conv = hookConversationId
  /\ sockets[socketRef].readyState = "CLOSED"

\* C7: when the socket of the current conversation has closed, the hook can get back,
\* still on that conversation, to a socket that is not closed
C7_UsableAfterClose ==
  (CurrentClosed /\ ops < MaxOps) =>
     ENABLED (HookNext /\ hookConversationId' = hookConversationId /\ ~CurrentClosed')

\* C10: no request and no frame is ever transmitted for a blank message
C10_BlankNeverTransmitted ==
  /\ \A x \in http : Trim(x.req.message) # <<>>
  /\ \A s \in SocketIds : \A i \in 1 .. Len(sockets[s].outbox) :
       Trim(sockets[s].outbox[i].message) # <<>>

\* C11: a turn's two messages enter a history together: in the store and in the page's
\* list every user message is directly followed by the assistant message of its turn
C11_AppendTurnAtomic ==
  /\ \A c \in ConvIds : \A k \in 1 .. Len(srvStore[c]) :
       srvStore[c][k][2] = "user" =>
         /\ k < Len(srvStore[c])
         /\ srvStore[c][k + 1] = <<srvStore[c][k][1], "assistant">>
  /\ \A i \in 1 .. Len(messages) :
       messages[i].role = "user" =>
         /\ i < Len(messages)
         /\ messages[i + 1].role = "assistant"

\* C12: the history is append-only: every step leaves the messages that were there
\* unchanged and in place, in the page's list and in the store
C12_HistoryAppendOnly ==
  [][ /\ Len(messages') >= Len(messages)
      /\ SubSeq(messages', 1, Len(messages)) = messages
      /\ \A c \in ConvIds :
           /\ Len(srvStore'[c]) >= Len(srvStore[c])
           /\ SubSeq(srvStore'[c], 1, Len(srvStore[c])) = srvStore[c] ]_vars

\* the list has grown over an answered turn and a failed turn
C12_Witness ==
  /\ Len(messages) = 4
  /\ \E i \in 1 .. 4 : messages[i].content = ApologyText
  /\ \E i \in 1 .. 4 : messages[i].content = SrvAnswerText

\* C13: the events of a socket are handled in the order they were emitted, none skipped:
\* an inbox changes only by an emission at its end or by the handling of its first event,
\* and right after an event is handled agentStatus is what that event alone determines
C13_EventsObservedInOrder ==
  [][ \A s \in SocketIds :
        LET before == sockets[s].inbox
            after == sockets'[s].inbox
        IN \/ after = before
           \/ /\ Len(after) = Len(before) + 1
              /\ SubSeq(after, 1, Len(before)) = before
              /\ agentStatus' = agentStatus
           \/ /\ before # <<>>
              /\ after = Tail(before)
              /\ LET e == JsonParse(Head(before))[1] IN
                   /\ trace' = Append(trace, <<s, e.turn, EventClass(e)>>)
                   /\ (e.type \in {"agent_start", "agent_status"}
                         => agentStatus' = << e.agent, " is ", e.status, "..." >>)
                   /\ (e.type = "agent_done" => agentStatus' = << "Finished: ", e.agent >>)
                   /\ (e.type = "status" => agentStatus' = << e.message >>) ]_vars

\* two agent events of one turn have been handled, the later one an agent_done
C13_Witness ==
  /\ agentStatus = << "Finished: ", "research" >>
  /\ \E i, j \in TraceIdx :
       /\ i < j
       /\ trace[i][3] = "agent" /\ trace[j][3] = "agent"
       /\ trace[i][1] = trace[j][1] /\ trace[i][2] = trace[j][2]
       /\ j = Len(trace)

\* the Chat page with the scheduling the code guarantees: a promise that has its
\* response is resolved; nothing in the code bounds the wait for the response
ChatFairSpec == ChatSpec /\ WF_chatVars(\E x \in http : HandleSendResolved(x))

\* C14: after an accepted send the page eventually leaves its busy state
C14_ExchangeTerminates == loading ~> ~loading

\* C15: an event on the socket of a conversation other than the current one (an event
\* frame, an error or a close) changes neither status nor agentStatus and calls no callback
C15_ConversationsIsolated ==
  [][ \A s \in SocketIds :
        ( /\ sockets[s].readyState # "NONE"
          /\ hookConversationId # NoId
          /\ sockets[s].conv # hookConversationId
          /\ hookConversationId' = hookConversationId
          /\ \/ sockets'[s].readyState # sockets[s].readyState
             \/ Len(sockets'[s].inbox) < Len(sockets[s].inbox) )
        => /\ status' = status
           /\ agentStatus' = agentStatus
           /\ delivered' = delivered ]_vars

FailedAgents(steps) == { steps[i].agent : i \in { j \in 1 .. Len(steps) : steps[j].status = "error" } }

LogAt(a, w) == { i \in 1 .. Len(pipe.log) : pipe.log[i] = <<a, w>> }

\* C18: Reasoning starts only after Research and Analysis have both finished, however
\* they ended, and Action starts only after Reasoning has finished
C18_ReasoningAwaitsBoth ==
  /\ \A i \in LogAt("reasoning", "start") :
       /\ \E j \in LogAt("research", "finish") : j < i
       /\ \E j \in LogAt("analyst", "finish") : j < i
  /\ \A i \in LogAt("action", "start") : \E j \in LogAt("reasoning", "finish") : j < i
  /\ pipe.reasoning # "idle" => SrvFinished(pipe.research) /\ SrvFinished(pipe.analysis)
  /\ pipe.action # "idle" => pipe.reasoning = "done"

\* Analysis started first and ended last, Research ran in between and produced nothing,
\* and Action has started after Reasoning
C18_Witness ==
  /\ Len(pipe.log) >= 7
  /\ SubSeq(pipe.log, 1, 4) = << <<"analyst", "start">>, <<"research", "start">>,
                                 <<"research", "finish">>, <<"analyst", "finish">> >>
  /\ pipe.found = {"analyst"}
  /\ pipe.log[7] = <<"action", "start">>

C20_FrequencyIsValid ==
  /\ \A i \in 1 .. Len(reportPosts) :
       reportPosts[i].kind = "schedule" => reportPosts[i].body.frequency \in {"daily", "weekly", "monthly"}
  /\ \A i \in 1 .. Len(scheduledReports) : scheduledReports[i].frequency \in {"daily", "weekly", "monthly"}
  /\ scheduleFrequency \in {"daily", "weekly", "monthly"}

\* a report was scheduled with a frequency chosen in the select, and the form has been reset since
C20_Witness ==
  /\ \E i \in 1 .. Len(scheduledReports) : scheduledReports[i].frequency = "monthly"
  /\ scheduleFrequency = "weekly"
  /\ ~showScheduleModal

\* C21: a response callback is called with the response of the frame it was passed with,
\* never with the response of another turn, and no callback is called twice
C21_ResponseToItsCaller ==
  /\ \A k \in 1 .. Len(delivered) : delivered[k].cb = delivered[k].turn
  /\ \A k, l \in 1 .. Len(delivered) : k # l => delivered[k].cb # delivered[l].cb

\* the socket socketRef.current refers to is open
CurrentOpen == socketRef # NoSocket /\ sockets[socketRef].readyState = "OPEN"

\* C22: status describes the current socket: isConnected (status = 'open') holds while the
\* current socket is open and only while it has opened and its close event has not fired,
\* and an open, error or close event of a socket that was replaced leaves status unchanged
C22_StatusOfCurrentSocket ==
  /\ [](CurrentOpen => status = "open")
  /\ [](status = "open" => socketRef # NoSocket /\ sockets[socketRef].readyState \in {"OPEN", "CLOSING"})
  /\ [][ \A s \in SocketIds :
           (s # socketRef /\ socketRef' = socketRef /\ sockets'[s].readyState # sockets[s].readyState)
             => status' = status ]_vars

\* C23: the roles of the page's list alternate, starting with user, and the list has an
\* odd length exactly while a send is in flight (loading)
C23_RolesAlternate ==
  /\ \A i \in 1 .. Len(messages) :
       messages[i].role = IF i % 2 = 1 THEN "user" ELSE "assistant"
  /\ (Len(messages) % 2 = 1) <=> loading

\* a failed turn is in the list and the user message of the next send has been appended
\* while its request is pending; a further send was tried meanwhile
C23_Witness ==
  /\ Len(messages) = 3
  /\ messages[2].content = ApologyText
  /\ loading
  /\ lastOp.op = "handleSend"
  /\ \E x \in http : x.turn = 2

\* C24: a call of sendMessage while there is no current socket, or while it is not OPEN,
\* transmits nothing, keeps the response callback registered before, and leaves status
\* and agentStatus as they were
C24_SendWhileNotOpenIsNoOp ==
  [][ ((\E m \in HookInputs : SendMessage(m)) /\ ~CurrentOpen)
        => /\ frames' = frames
           /\ sockets' = sockets
           /\ onMessageRef' = onMessageRef
           /\ status' = status
           /\ agentStatus' = agentStatus
           /\ delivered' = delivered ]_vars

\* a message was transmitted, its socket closed before the response, and the next call of
\* sendMessage was refused: the first call's callback and 'Processing...' are still there
C24_Witness ==
  /\ lastSend = "refused"
  /\ frames = 1
  /\ onMessageRef = 1
  /\ agentStatus = ProcessingStatus
  /\ status = "closed"
  /\ ~CurrentOpen

\* C25: handling a frame that is not valid JSON, or whose type is none of agent_status,
\* agent_start, agent_done, status, response_chunk and response, leaves status and
\* agentStatus unchanged and calls no callback; the socket stays open with the frames
\* behind it in place, so that they are handled next
C25_BadFrameIgnored ==
  [][ \A s \in SocketIds :
        LET before == sockets[s].inbox
            parsed == JsonParse(Head(before))
        IN ( /\ before # <<>>
             /\ Len(sockets'[s].inbox) = Len(before) - 1
             /\ \/ parsed = <<>>
                \/ parsed[1].type \notin {"agent_status", "agent_start", "agent_done", "status",
                                          "response_chunk", "response"} )
           => /\ status' = status
              /\ agentStatus' = agentStatus
              /\ delivered' = delivered
              /\ onMessageRef' = onMessageRef
              /\ sockets'[s].readyState = "OPEN"
              /\ sockets'[s].inbox = Tail(before) ]_vars

\* while a turn was running a text that is no JSON and a frame of an unknown type were
\* handled, 'Processing...' stayed, and then the turn's response was handled and handed
\* to its callback
C25_Witness ==
  \E i, j, k \in TraceIdx :
    /\ i < k /\ j < k
    /\ trace[i][3] = "thrown"
    /\ trace[j][3] = "unknown"
    /\ trace[k][3] = "response"
    /\ Len(delivered) = 1 /\ delivered[1].at = k /\ delivered[1].cb = delivered[1].turn

\* ------------------------------------------------ claims on the Notifications page
\* C26: a notification for which markAsRead has succeeded is shown as read from then on
C26_MarkedStaysRead ==
  \A id \in notifMarked : \A i \in 1 .. Len(notifications) :
    notifications[i].id = id => notifications[i].is_read

\* C28: a notification deleteNotification was called with is not in the list from then on
C28_DeletedStaysAbsent ==
  \A id \in notifDeleted : \A i \in 1 .. Len(notifications) : notifications[i].id # id

\* ---------------------------------------------------- claims on the Documents page
\* C27: the posts of a call of handleUpload are the files it started with, in list order,
\* one at a time, and none follows a post that failed; the list is refetched only after
\* every file was uploaded; a file whose upload has succeeded is not posted again; when a
\* call fails, selectedFiles, the modal and the list are as they were and nothing is
\* fetched; when it succeeds the list was refetched, the modal is closed and selectedFiles
\* is empty; uploading is false in both cases
C27_UploadSequential ==
  /\ [](/\ Cardinality({ i \in 1 .. Len(docPosts) : docPosts[i].phase \in {"pending", "stored"} }) <= 1
        /\ \A r \in 1 .. Len(docRuns) :
             LET posts == RunPosts(r) IN
               /\ Len(posts) <= Len(docRuns[r].files)
               /\ \A k \in 1 .. Len(posts) : posts[k].file = docRuns[r].files[k]
               /\ \A k \in 1 .. Len(posts) - 1 : posts[k].phase = "done"
        /\ \A x \in docFetches :
             x.run # 0 =>
               /\ Len(RunPosts(x.run)) = Len(docRuns[x.run].files)
               /\ \A k \in 1 .. Len(RunPosts(x.run)) : RunPosts(x.run)[k].phase = "done")
  /\ [](\A i, j \in 1 .. Len(docPosts) :
          (i < j /\ docPosts[i].file = docPosts[j].file) => docPosts[i].phase # "done")
  /\ [][ \A r \in 1 .. Len(docRuns) :
           /\ (docRuns[r].state # "failed" /\ docRuns'[r].state = "failed")
                => /\ selectedFiles' = selectedFiles
                   /\ showUploadModal' = showUploadModal
                   /\ docFetches' = docFetches
                   /\ documents' = documents
                   /\ ~uploading'
           /\ (docRuns[r].state # "done" /\ docRuns'[r].state = "done")
                => /\ \E x \in docFetches \ docFetches' : x.run = r
                   /\ ~showUploadModal'
                   /\ selectedFiles' = <<>>
                   /\ ~uploading' ]_vars

\* ---------------------------------------------------- claims on the Reports form
\* C30: whenever both the Generate and the Schedule modal are closed, the form holds its
\* defaults: empty title, type weekly_analysis, format pdf, 7 days, AI analysis on,
\* frequency weekly, no recipients
C30_ClosedFormIsDefault ==
  (~showGenerateModal /\ ~showScheduleModal) =>
    /\ reportTitle = <<>>
    /\ reportType = "weekly_analysis"
    /\ reportFormat = "pdf"
    /\ timeRangeDays = 7
    /\ includeAI = TRUE
    /\ scheduleFrequency = "weekly"
    /\ scheduleRecipients = <<>>

\* ---------------------------------------------------- claims on the ids of the Chat messages
\* C29: the messages of the Chat page's list have pairwise distinct ids, whatever the
\* sends, successes and failures and whatever their timing
C29_DistinctIds ==
  \A i, j \in 1 .. Len(messageIds) : i # j => messageIds[i] # messageIds[j]

====
